---------------------------- MODULE Spec2Model ----------------------------
(* A model of package kml (src/src/kml/kml.go): the document tree of       *)
(* folders, placemarks, styles and points, and its rendering to KML text.  *)
(*                                                                         *)
(* float64 values are records: [k |-> "fin", v |-> n] is the finite value  *)
(* n/10 (n an integer number of tenths), and the kinds "nan", "pinf" and   *)
(* "ninf" are the IEEE special values.  Text is a TLA+ string.             *)
EXTENDS Integers, Sequences, FiniteSets, TLC

VARIABLES
    ptArgs,     \* arguments of the last NewPoint call
    ptRes,      \* what that call returned: (*Point, error)
    ptOut,      \* what the last Point.render call returned
    style,      \* the *Style under test
    stCall,     \* the last call made on the style
    stOut,      \* what the last Style.render call returned
    lastFill,   \* argument of the most recent SetPolygonFill call
    lastScale,  \* argument of the most recent SetIconScale call in [0, 100]
    kml,        \* the *KML document
    folders,    \* the Folder objects allocated so far; a *Folder is an index
    placemarks, \* the Placemark objects allocated so far
    docOut,     \* what the last call returned, when it was a render call
    added,      \* per parent, the arguments of its add calls that were not nil
    lastStyle   \* per placemark, the style reference its SetStyle calls ask for

vars == <<ptArgs, ptRes, ptOut, style, stCall, stOut, lastFill, lastScale,
          kml, folders, placemarks, docOut, added, lastStyle>>
docVars == <<kml, folders, placemarks, docOut, added, lastStyle>>
ptVars == <<ptArgs, ptRes, ptOut>>
stVars == <<style, stCall, stOut, lastFill, lastScale>>

-----------------------------------------------------------------------------
(* float64 *)

F(n) == [k |-> "fin", v |-> n]
NaN == [k |-> "nan", v |-> 0]
PosInf == [k |-> "pinf", v |-> 0]
NegInf == [k |-> "ninf", v |-> 0]

IsNaN(x) == x.k = "nan"
IsInf(x) == x.k \in {"pinf", "ninf"}

\* x > y and x < y of IEEE 754: every comparison with NaN is false.
Gt(x, y) ==
    CASE IsNaN(x) \/ IsNaN(y) -> FALSE
      [] x.k = "pinf" -> y.k # "pinf"
      [] x.k = "ninf" -> FALSE
      [] y.k = "pinf" -> FALSE
      [] y.k = "ninf" -> TRUE
      [] OTHER -> x.v > y.v
Lt(x, y) == Gt(y, x)
Ge(x, y) == ~IsNaN(x) /\ ~IsNaN(y) /\ (Gt(x, y) \/ x = y)
Le(x, y) == Ge(y, x)

-----------------------------------------------------------------------------
(* fmt.Sprintf verbs *)

Digits == <<"0", "1", "2", "3", "4", "5", "6", "7", "8", "9",
            "a", "b", "c", "d", "e", "f">>

RECURSIVE Dec(_)
Dec(n) == IF n < 10 THEN Digits[n + 1] ELSE Dec(n \div 10) \o Digits[(n % 10) + 1]

RECURSIVE Hex(_)
Hex(n) == IF n < 16 THEN Digits[n + 1] ELSE Hex(n \div 16) \o Digits[(n % 16) + 1]

\* %d
Fmt_d(n) == IF n < 0 THEN "-" \o Dec(-n) ELSE Dec(n)

\* %02x: lowercase hexadecimal, zero-padded to width 2
Fmt_02x(n) == IF Len(Hex(n)) < 2 THEN "0" \o Hex(n) ELSE Hex(n)

\* %f: fixed notation with six digits after the decimal point
Fmt_f(x) ==
    CASE x.k = "nan" -> "NaN"
      [] x.k = "pinf" -> "+Inf"
      [] x.k = "ninf" -> "-Inf"
      [] OTHER ->
           LET a == IF x.v < 0 THEN -x.v ELSE x.v
           IN  (IF x.v < 0 THEN "-" ELSE "") \o Dec(a \div 10) \o "."
                 \o Digits[(a % 10) + 1] \o "00000"

-----------------------------------------------------------------------------
(* Point *)

Nil == [t |-> "nil"]
NoErr == ""

\* NewPoint without the lower bound of the longitude check.
NewPoint_NoLowerLon(lat, lon, alt) ==
    IF IsNaN(lat) \/ IsInf(lat)
    THEN [point |-> Nil, err |-> "Lat is NaN or Inf."]
    ELSE IF Gt(lat, F(900)) \/ Lt(lat, F(-900))
    THEN [point |-> Nil, err |-> "Invalid Lat: " \o Fmt_f(lat)]
    ELSE IF IsNaN(lon) \/ IsInf(lon)
    THEN [point |-> Nil, err |-> "Lon is NaN or Inf."]
    ELSE IF Gt(lon, F(1800))
    THEN [point |-> Nil, err |-> "Invalid Lon: " \o Fmt_f(lon)]
    ELSE [point |-> [t |-> "Point", Lat |-> lat, Lon |-> lon,
                     Alt |-> IF IsNaN(alt) \/ IsInf(alt) THEN F(0) ELSE alt],
          err |-> NoErr]

NewPoint(lat, lon, alt) ==
    IF IsNaN(lat) \/ IsInf(lat)
    THEN [point |-> Nil, err |-> "Lat is NaN or Inf."]
    ELSE IF Gt(lat, F(900)) \/ Lt(lat, F(-900))
    THEN [point |-> Nil, err |-> "Invalid Lat: " \o Fmt_f(lat)]
    ELSE IF IsNaN(lon) \/ IsInf(lon)
    THEN [point |-> Nil, err |-> "Lon is NaN or Inf."]
    ELSE IF Gt(lon, F(1800)) \/ Lt(lon, F(-1800))
    THEN [point |-> Nil, err |-> "Invalid Lon: " \o Fmt_f(lon)]
    ELSE [point |-> [t |-> "Point", Lat |-> lat, Lon |-> lon,
                     Alt |-> IF IsNaN(alt) \/ IsInf(alt) THEN F(0) ELSE alt],
          err |-> NoErr]

\* A render result: the text returned, or a run-time panic (nil dereference).
Ok(s) == [ok |-> TRUE, text |-> s]
Panic == [ok |-> FALSE, text |-> "panic: nil pointer dereference"]

\* Point.render with the coordinates in the constructor's order.
Point_render_LatFirst(p) ==
    IF p = Nil THEN Panic
    ELSE Ok("<Point>\n" \o
            "<extrude>0</extrude>\n" \o
            "<altitudeMode>clampToGround</altitudeMode>\n" \o
            "<coordinates>" \o Fmt_f(p.Lat) \o "," \o Fmt_f(p.Lon) \o ","
                \o Fmt_f(p.Alt) \o "</coordinates>\n" \o
            "</Point>\n")

Point_render(p) ==
    IF p = Nil THEN Panic
    ELSE Ok("<Point>\n" \o
            "<extrude>0</extrude>\n" \o
            "<altitudeMode>clampToGround</altitudeMode>\n" \o
            "<coordinates>" \o Fmt_f(p.Lon) \o "," \o Fmt_f(p.Lat) \o ","
                \o Fmt_f(p.Alt) \o "</coordinates>\n" \o
            "</Point>\n")

\* Sample float64 arguments: the range boundaries, their neighbours, and the
\* special values.
Floats == {F(n) : n \in {-1801, -1800, -901, -900, -1, 0, 100, 200, 900, 901,
                          1800, 1801, -1810, 1810, -910, 910}}
            \cup {NaN, PosInf, NegInf}

NoCall == [op |-> "none"]
NoOut == [ok |-> FALSE, text |-> "-"]

PtInit ==
    /\ ptArgs = NoCall
    /\ ptRes = [point |-> Nil, err |-> NoErr]
    /\ ptOut = NoOut

DoNewPoint ==
    \E lat \in Floats, lon \in Floats, alt \in Floats :
        /\ ptArgs = NoCall
        /\ ptArgs' = [op |-> "NewPoint", lat |-> lat, lon |-> lon, alt |-> alt]
        /\ ptRes' = NewPoint(lat, lon, alt)
        /\ ptOut' = NoOut
        /\ UNCHANGED <<stVars, docVars>>

DoPointRender ==
    /\ ptArgs # NoCall
    /\ ptOut' = Point_render(ptRes.point)
    /\ UNCHANGED <<ptArgs, ptRes>>
    /\ UNCHANGED <<stVars, docVars>>


PtNext == DoNewPoint \/ DoPointRender

-----------------------------------------------------------------------------
(* Style *)

DefaultIconURL == "http://maps.google.com/mapfiles/kml/pushpin/ylw-pushpin.png"

NewStyle(name, alpha, red, green, blue) ==
    [t |-> "Style", name |-> name, alpha |-> alpha, red |-> red,
     green |-> green, blue |-> blue, iconURL |-> DefaultIconURL,
     iconScale |-> F(11), fill |-> 1]

\* The white space of unicode.IsSpace: '\t', '\n', '\v', '\f', '\r', ' ',
\* U+0085 (NEL), U+00A0 (NBSP) and the White_Space characters above U+00FF:
\* U+1680, U+2000..U+200A, U+2028, U+2029, U+202F, U+205F, U+3000.  VT, NEL,
\* NBSP and OGSP (U+1680) hold the character itself, as a module string has no
\* escape for them.  Of the characters above U+00FF only U+1680 can be written
\* in a module string; the others are rejected when the module is read, so no
\* text of the model holds one.
VT == ""
NEL == ""
NBSP == " "
OGSP == " "
Spaces == {" ", "\t", "\n", VT, "\f", "\r", NEL, NBSP, OGSP}

\* unicode.IsSpace
IsSpace(c) == c \in Spaces

\* s begins, or ends, with the white-space character w
StartsWith(s, w) == Len(s) >= Len(w) /\ SubSeq(s, 1, Len(w)) = w
EndsWith(s, w) == Len(s) >= Len(w) /\ SubSeq(s, Len(s) - Len(w) + 1, Len(s)) = w

\* strings.TrimSpace
RECURSIVE TrimLeft(_)
TrimLeft(s) ==
    IF \E w \in Spaces : IsSpace(w) /\ StartsWith(s, w)
    THEN LET w == CHOOSE w \in Spaces : StartsWith(s, w)
         IN  TrimLeft(SubSeq(s, Len(w) + 1, Len(s)))
    ELSE s
RECURSIVE TrimRight(_)
TrimRight(s) ==
    IF \E w \in Spaces : IsSpace(w) /\ EndsWith(s, w)
    THEN LET w == CHOOSE w \in Spaces : EndsWith(s, w)
         IN  TrimRight(SubSeq(s, 1, Len(s) - Len(w)))
    ELSE s
TrimSpace(s) == TrimRight(TrimLeft(s))

SetIconURL(s, url) ==
    IF Len(TrimSpace(url)) > 0 THEN [s EXCEPT !.iconURL = TrimSpace(url)] ELSE s

\* SetIconScale with the interval open instead of closed.
SetIconScale_Open(s, scale) ==
    IF Gt(scale, F(0)) /\ Lt(scale, F(1000)) THEN [s EXCEPT !.iconScale = scale]
    ELSE s

SetIconScale(s, scale) ==
    IF Ge(scale, F(0)) /\ Le(scale, F(1000)) THEN [s EXCEPT !.iconScale = scale]
    ELSE s

SetPolygonFill(s, fill) ==
    IF fill = TRUE THEN [s EXCEPT !.fill = 1] ELSE [s EXCEPT !.fill = 0]

\* The color text in the order alpha, red, green, blue.
Style_colorStr_ARGB(s) ==
    "<color>" \o Fmt_02x(s.alpha) \o Fmt_02x(s.red) \o Fmt_02x(s.green)
        \o Fmt_02x(s.blue) \o "</color>\n"

Style_colorStr(s) ==
    "<color>" \o Fmt_02x(s.alpha) \o Fmt_02x(s.blue) \o Fmt_02x(s.green)
        \o Fmt_02x(s.red) \o "</color>\n"

Style_render(s) ==
    IF s = Nil THEN Panic
    ELSE Ok("<Style id=\"" \o s.name \o "\">\n" \o
            "<IconStyle>\n" \o
            Style_colorStr(s) \o
            "<scale>" \o Fmt_f(s.iconScale) \o "</scale>\n" \o
            "<Icon><href>" \o s.iconURL \o "</href></Icon>\n" \o
            "</IconStyle>\n" \o
            "<LineStyle>\n" \o
            Style_colorStr(s) \o
            "<width>3</width>\n" \o
            "</LineStyle>\n" \o
            "<PolyStyle>\n" \o
            Style_colorStr(s) \o
            "<colorMode>normal</colorMode>\n" \o
            "<fill>" \o Fmt_d(s.fill) \o "</fill>\n" \o
            "<outline>1</outline>\n" \o
            "</PolyStyle>\n" \o
            "</Style>\n")

\* Sample arguments.
Alphas == {0, 15, 255}
Reds == {1, 16, 254}
Greens == {2, 9, 171}
Blues == {3, 10, 200}
Scales == {F(-1), F(0), F(500), F(1000), F(1001), NaN, PosInf, NegInf}
URLs == {"", " \t", "u", " u\n", VT \o NBSP, NEL \o "u" \o VT,
         OGSP \o "u"}
StyleNames == {"s"}

StInit ==
    /\ style = Nil
    /\ stCall = NoCall
    /\ stOut = NoOut
    /\ lastFill = "never"
    /\ lastScale = F(11)

DoNewStyle ==
    \E name \in StyleNames, alpha \in Alphas, red \in Reds,
       green \in Greens, blue \in Blues :
        /\ style = Nil
        /\ style' = NewStyle(name, alpha, red, green, blue)
        /\ stCall' = [op |-> "NewStyle"]
        /\ stOut' = NoOut
        /\ lastFill' = "never"
        /\ lastScale' = F(11)
        /\ UNCHANGED <<ptVars, docVars>>

DoSetIconURL ==
    \E url \in URLs :
        /\ style # Nil
        /\ style' = SetIconURL(style, url)
        /\ stCall' = [op |-> "SetIconURL", url |-> url]
        /\ stOut' = NoOut
        /\ UNCHANGED <<lastFill, lastScale>>
        /\ UNCHANGED <<ptVars, docVars>>

DoSetIconScale ==
    \E scale \in Scales :
        /\ style # Nil
        /\ style' = SetIconScale(style, scale)
        /\ stCall' = [op |-> "SetIconScale", scale |-> scale]
        /\ stOut' = NoOut
        /\ lastScale' = IF scale.k = "fin" /\ scale.v >= 0 /\ scale.v <= 1000
                        THEN scale ELSE lastScale
        /\ UNCHANGED lastFill
        /\ UNCHANGED <<ptVars, docVars>>

DoSetPolygonFill ==
    \E fill \in BOOLEAN :
        /\ style # Nil
        /\ style' = SetPolygonFill(style, fill)
        /\ stCall' = [op |-> "SetPolygonFill", fill |-> fill]
        /\ stOut' = NoOut
        /\ lastFill' = IF fill THEN "true" ELSE "false"
        /\ UNCHANGED lastScale
        /\ UNCHANGED <<ptVars, docVars>>

DoStyleRender ==
    /\ style # Nil
    /\ stOut' = Style_render(style)
    /\ stCall' = [op |-> "render"]
    /\ UNCHANGED <<style, lastFill, lastScale>>
    /\ UNCHANGED <<ptVars, docVars>>

StNext ==
    DoNewStyle \/ DoSetIconURL \/ DoSetIconScale \/ DoSetPolygonFill
        \/ DoStyleRender

-----------------------------------------------------------------------------
(* KML, Folder, Placemark *)

\* A renderable interface value is Nil (the nil interface) or a typed pointer:
\* [t |-> "Folder", p |-> i] and [t |-> "Placemark", p |-> i] point at object
\* i of the heap, or are typed nil pointers when i = 0; a "Point" or "Style"
\* value carries the object it points at, or Nil.
NilPtr == 0

MaxFolders == 2
MaxPlacemarks == 1
MaxChildren == 3

\* The recursion depth at which the goroutine stack is exhausted; deeper than
\* any path of a tree built from the bounded heap.
MaxStack == MaxFolders + MaxPlacemarks + 2

Overflow == [ok |-> FALSE, text |-> "stack overflow"]

NewKML == [folders |-> <<>>]

\* KML.AddFolder: folder is a *Folder
AddFolder(k, folder) ==
    IF folder # NilPtr THEN [k EXCEPT !.folders = Append(@, folder)] ELSE k

NewFolder(name, desc) == [name |-> name, description |-> desc, features |-> <<>>]

\* Folder.AddFeature with the new child in front.
AddFeature_Prepend(f, feature) ==
    IF feature # Nil THEN [f EXCEPT !.features = <<feature>> \o @] ELSE f

\* Folder.AddFeature: feature is an interface value, and feature != nil
\* compares it with the nil interface
AddFeature(f, feature) ==
    IF feature # Nil THEN [f EXCEPT !.features = Append(@, feature)] ELSE f

NewPlacemark(name, desc, geom) ==
    [name |-> name, description |-> desc, geometry |-> geom, style |-> ""]

\* Placemark.SetStyle storing the name as given.
SetStyle_NoTrim(pm, name) ==
    IF Len(TrimSpace(name)) > 0 THEN [pm EXCEPT !.style = name] ELSE pm

SetStyle(pm, name) ==
    IF Len(TrimSpace(name)) > 0 THEN [pm EXCEPT !.style = TrimSpace(name)] ELSE pm

RECURSIVE Folder_render(_, _, _)
RECURSIVE Placemark_render(_, _, _)
RECURSIVE Renderable_render(_, _, _)
RECURSIVE RenderEach(_, _, _)

\* the call x.render() on an interface value x, with depth stack frames left
Renderable_render(h, x, depth) ==
    CASE x = Nil -> Panic
      [] x.t = "Folder" -> Folder_render(h, x.p, depth)
      [] x.t = "Placemark" -> Placemark_render(h, x.p, depth)
      [] x.t = "Point" -> Point_render(x.p)
      [] x.t = "Style" -> Style_render(x.p)

\* the loop "for _, x := range xs { ret += x.render() }"
RenderEach(h, xs, depth) ==
    IF xs = <<>> THEN Ok("")
    ELSE LET first == Renderable_render(h, Head(xs), depth)
         IN  IF ~first.ok THEN first
             ELSE LET rest == RenderEach(h, Tail(xs), depth)
                  IN  IF ~rest.ok THEN rest ELSE Ok(first.text \o rest.text)

Folder_render(h, f, depth) ==
    IF depth = 0 THEN Overflow
    ELSE IF f = NilPtr THEN Panic
    ELSE LET body == RenderEach(h, h.folders[f].features, depth - 1)
         IN  IF ~body.ok THEN body
             ELSE Ok("<Folder>\n" \o
                     "<name>" \o h.folders[f].name \o "</name>\n" \o
                     "<description>" \o h.folders[f].description
                         \o "</description>\n" \o
                     body.text \o
                     "</Folder>\n")

Placemark_render(h, p, depth) ==
    IF depth = 0 THEN Overflow
    ELSE IF p = NilPtr THEN Panic
    ELSE LET pm == h.placemarks[p]
             geom == Renderable_render(h, pm.geometry, depth - 1)
         IN  IF ~geom.ok THEN geom
             ELSE Ok("<Placemark>\n" \o
                     "<name>" \o pm.name \o "</name>\n" \o
                     "<description>" \o pm.description \o "</description>\n" \o
                     "<visibility>1</visibility>\n" \o
                     (IF Len(pm.style) > 0
                      THEN "<styleUrl>#" \o pm.style \o "</styleUrl>\n" ELSE "") \o
                     geom.text \o
                     "</Placemark>\n")

XmlHeader ==
    "<?xml version=\"1.0\" encoding=\"UTF-8\"?>\n" \o
    "<kml xmlns=\"http://www.opengis.net/kml/2.2\">\n"

\* KML.Render
Render(h, k) ==
    LET body == RenderEach(h, [i \in 1..Len(k.folders) |->
                                 [t |-> "Folder", p |-> k.folders[i]]], MaxStack)
    IN  IF ~body.ok THEN body ELSE Ok(XmlHeader \o body.text \o "</kml>\n")

Heap == [folders |-> folders, placemarks |-> placemarks]

\* Sample arguments: the i-th folder created is named FolderNames[i].
FolderNames == <<"A", "B", "C", "D">>
PlacemarkNames == {"P", "Q"}
Geometries == {Nil, [t |-> "Point", p |-> Nil],
               [t |-> "Point", p |-> NewPoint(F(100), F(200), F(0)).point],
               [t |-> "Point", p |-> NewPoint(F(-900), F(1800), NaN).point]}
DocPlacemarkNames == {"P"}
DocGeometries == {[t |-> "Point", p |-> NewPoint(F(100), F(200), F(0)).point]}
FolderArgs == 0..Len(folders)
FeatureArgs ==
    {Nil} \cup {[t |-> "Folder", p |-> i] : i \in 0..Len(folders)}
          \cup {[t |-> "Placemark", p |-> i] : i \in 1..Len(placemarks)}
          \cup {[t |-> "Style", p |-> NewStyle("s", 255, 1, 2, 3)]}
\* a SetStyle argument, with the reference the placemark is expected to hold
\* after the call when the argument is not blank
StyleArgs == {[raw |-> "", want |-> ""], [raw |-> " \t\n", want |-> ""],
              [raw |-> "s", want |-> "s"], [raw |-> " s", want |-> "s"],
              [raw |-> "t\r\n", want |-> "t"], [raw |-> "\ta b ", want |-> "a b"],
              [raw |-> "\fu", want |-> "u"], [raw |-> "#v", want |-> "#v"],
              [raw |-> " w\tx\n", want |-> "w\tx"],
              [raw |-> VT, want |-> ""], [raw |-> NBSP \o NEL, want |-> ""],
              [raw |-> OGSP, want |-> ""], [raw |-> OGSP \o "t" \o OGSP, want |-> "t"],
              [raw |-> VT \o "s" \o NBSP, want |-> "s"],
              [raw |-> NEL \o "y" \o VT \o "z" \o VT, want |-> "y" \o VT \o "z"]}

DocStyleArgs == {[raw |-> "", want |-> ""], [raw |-> " s", want |-> "s"]}

\* nil in the caller's sense: the nil interface or a nil pointer
IsNilArg(x) ==
    \/ x = Nil
    \/ x.t \in {"Folder", "Placemark"} /\ x.p = NilPtr
    \/ x.t \in {"Point", "Style"} /\ x.p = Nil

RECURSIVE NumFeatures(_)
NumFeatures(fs) ==
    IF fs = <<>> THEN 0 ELSE Len(Head(fs).features) + NumFeatures(Tail(fs))
NumChildren == Len(kml.folders) + NumFeatures(folders)

DocInit ==
    /\ kml = NewKML
    /\ folders = <<>>
    /\ placemarks = <<>>
    /\ docOut = NoOut
    /\ added = [kml |-> <<>>, features |-> <<>>]
    /\ lastStyle = <<>>

DoNewFolder ==
    /\ Len(folders) < MaxFolders
    /\ folders' = Append(folders, NewFolder(FolderNames[Len(folders) + 1], "d"))
    /\ added' = [added EXCEPT !.features = Append(@, <<>>)]
    /\ docOut' = NoOut
    /\ UNCHANGED <<kml, placemarks, lastStyle>>
    /\ UNCHANGED <<ptVars, stVars>>

NewPlacemarkCall(names, geoms) ==
    \E name \in names, geom \in geoms :
        /\ Len(placemarks) < MaxPlacemarks
        /\ placemarks' = Append(placemarks, NewPlacemark(name, "q", geom))
        /\ lastStyle' = Append(lastStyle, "")
        /\ docOut' = NoOut
        /\ UNCHANGED <<kml, folders, added>>
        /\ UNCHANGED <<ptVars, stVars>>

DoNewPlacemark == NewPlacemarkCall(PlacemarkNames, Geometries)
DoNewPlacemarkDoc == NewPlacemarkCall(DocPlacemarkNames, DocGeometries)

DoAddFolder ==
    \E folder \in FolderArgs :
        /\ NumChildren < MaxChildren
        /\ kml' = AddFolder(kml, folder)
        /\ added' = IF folder = NilPtr THEN added
                    ELSE [added EXCEPT !.kml = Append(@, folder)]
        /\ docOut' = NoOut
        /\ UNCHANGED <<folders, placemarks, lastStyle>>
        /\ UNCHANGED <<ptVars, stVars>>

DoAddFeature ==
    \E f \in 1..Len(folders), feature \in FeatureArgs :
        /\ NumChildren < MaxChildren
        /\ folders' = [folders EXCEPT ![f] = AddFeature(@, feature)]
        /\ added' = IF IsNilArg(feature) THEN added
                    ELSE [added EXCEPT !.features[f] = Append(@, feature)]
        /\ docOut' = NoOut
        /\ UNCHANGED <<kml, placemarks, lastStyle>>
        /\ UNCHANGED <<ptVars, stVars>>

SetStyleCall(args) ==
    \E p \in 1..Len(placemarks), a \in args :
        /\ placemarks' = [placemarks EXCEPT ![p] = SetStyle(@, a.raw)]
        /\ lastStyle' = IF a.want = "" THEN lastStyle
                        ELSE [lastStyle EXCEPT ![p] = a.want]
        /\ docOut' = NoOut
        /\ UNCHANGED <<kml, folders, added>>
        /\ UNCHANGED <<ptVars, stVars>>

DoSetStyle == SetStyleCall(StyleArgs)
DoSetStyleDoc == SetStyleCall(DocStyleArgs)

DoPlacemarkRender ==
    \E p \in 1..Len(placemarks) :
        /\ docOut' = [ok |-> Placemark_render(Heap, p, MaxStack).ok,
                      text |-> Placemark_render(Heap, p, MaxStack).text,
                      p |-> p]
        /\ UNCHANGED <<kml, folders, placemarks, added, lastStyle>>
        /\ UNCHANGED <<ptVars, stVars>>

\* KML.Render that consumes the folder list as it renders it.
DoRender_Draining ==
    /\ docOut' = Render(Heap, kml)
    /\ kml' = [kml EXCEPT !.folders = <<>>]
    /\ UNCHANGED <<folders, placemarks, added, lastStyle>>
    /\ UNCHANGED <<ptVars, stVars>>

DoRender ==
    /\ docOut' = Render(Heap, kml)
    /\ UNCHANGED <<kml, folders, placemarks, added, lastStyle>>
    /\ UNCHANGED <<ptVars, stVars>>

PmNext == DoNewPlacemark \/ DoSetStyle \/ DoPlacemarkRender

Next ==
    DoNewFolder \/ DoNewPlacemarkDoc \/ DoAddFolder \/ DoAddFeature
        \/ DoSetStyleDoc \/ DoRender

Init == PtInit /\ StInit /\ DocInit

SpecPoint == Init /\ [][PtNext]_vars
SpecStyle == Init /\ [][StNext]_vars
SpecPlacemark == Init /\ [][PmNext]_vars
Spec == Init /\ [][Next]_vars


-----------------------------------------------------------------------------
(* Text helpers of the properties *)

\* the positions at which sub occurs in s
Occurrences(s, sub) ==
    {i \in 1..(Len(s) - Len(sub) + 1) : SubSeq(s, i, i + Len(sub) - 1) = sub}
Contains(s, sub) == Occurrences(s, sub) # {}
HasPrefix(s, pre) == Len(s) >= Len(pre) /\ SubSeq(s, 1, Len(pre)) = pre

-----------------------------------------------------------------------------
(* Properties of NewPoint and Point.render *)

LatValid(x) == x.k = "fin" /\ x.v >= -900 /\ x.v <= 900
LonValid(x) == x.k = "fin" /\ x.v >= -1800 /\ x.v <= 1800
IsLatErr(e) == e = "Lat is NaN or Inf." \/ HasPrefix(e, "Invalid Lat: ")
IsLonErr(e) == e = "Lon is NaN or Inf." \/ HasPrefix(e, "Invalid Lon: ")

\* C1 as stated: an invalid latitude gives no point and a latitude error, and
\* an invalid longitude gives no point and a longitude error, whatever the
\* other coordinate is.
C1_AsStated ==
    ptArgs.op = "NewPoint" =>
        /\ ~LatValid(ptArgs.lat) => ptRes.point = Nil /\ IsLatErr(ptRes.err)
        /\ ~LonValid(ptArgs.lon) => ptRes.point = Nil /\ IsLonErr(ptRes.err)

\* C1 amended: an invalid latitude gives no point and a latitude error whatever
\* the longitude is; an invalid longitude gives no point and a longitude error
\* when the latitude is valid (the latitude is checked first, so when both are
\* invalid the error is the latitude's).
C1_LatCheckedFirst ==
    ptArgs.op = "NewPoint" =>
        /\ ~LatValid(ptArgs.lat) =>
              ptRes.point = Nil /\ IsLatErr(ptRes.err) /\ ~IsLonErr(ptRes.err)
        /\ LatValid(ptArgs.lat) /\ ~LonValid(ptArgs.lon) =>
              ptRes.point = Nil /\ IsLonErr(ptRes.err) /\ ~IsLatErr(ptRes.err)

C1_Witness ==
    /\ ptArgs.op = "NewPoint"
    /\ ptArgs.lat = F(900) /\ ptArgs.lon = F(-1801)
    /\ ptRes.point = Nil
    /\ ptRes.err = "Invalid Lon: -180.100000"

\* C2: valid latitude and longitude and any altitude give a point and no
\* error, with Lat = lat, Lon = lon, and Alt = alt when alt is finite and 0
\* otherwise; the point renders its coordinates as longitude, latitude,
\* altitude.
C2_ValidPoint ==
    (ptArgs.op = "NewPoint" /\ LatValid(ptArgs.lat) /\ LonValid(ptArgs.lon)) =>
        LET alt == IF ptArgs.alt.k = "fin" THEN ptArgs.alt ELSE F(0)
        IN  /\ ptRes.err = NoErr
            /\ ptRes.point # Nil
            /\ ptRes.point.Lat = ptArgs.lat
            /\ ptRes.point.Lon = ptArgs.lon
            /\ ptRes.point.Alt = alt
            /\ ptOut # NoOut =>
                  /\ ptOut.ok
                  /\ Contains(ptOut.text,
                        "<coordinates>" \o Fmt_f(ptArgs.lon) \o "," \o
                        Fmt_f(ptArgs.lat) \o "," \o Fmt_f(alt) \o "</coordinates>\n")
                  /\ (ptArgs.lat = F(100) /\ ptArgs.lon = F(200)
                        /\ ptArgs.alt = F(0)) =>
                        Contains(ptOut.text,
                            "<coordinates>20.000000,10.000000,0.000000</coordinates>\n")

C2_Witness ==
    /\ ptArgs.op = "NewPoint"
    /\ ptArgs.lat = F(-900) /\ ptArgs.lon = F(1800) /\ ptArgs.alt = NaN
    /\ ptOut.ok
    /\ Contains(ptOut.text, "<coordinates>180.000000,-90.000000,0.000000</coordinates>\n")

-----------------------------------------------------------------------------
(* Properties of Style *)

\* C5 as stated: a new Style has fill flag 0, and the flag render emits is 1
\* exactly when the most recent SetPolygonFill argument was true, and 0 when
\* it was false or SetPolygonFill was never called.
C5_AsStated ==
    style # Nil =>
        LET flag == IF lastFill = "true" THEN "1" ELSE "0"
        IN  /\ Fmt_d(style.fill) = flag
            /\ stOut.ok => Contains(stOut.text, "<fill>" \o flag \o "</fill>\n")

ScaleInRange(x) == x.k = "fin" /\ x.v >= 0 /\ x.v <= 1000

\* C6: the icon scale is always within [0, 100]; it is the argument of the
\* most recent SetIconScale call whose argument was in [0, 100], or 1.1 when
\* there was none; a call with an out-of-range argument changes no field, and
\* no SetIconScale call changes a field other than the scale.
C6_IconScale ==
    /\ [](style # Nil =>
            /\ ScaleInRange(style.iconScale)
            /\ style.iconScale = lastScale)
    /\ [][stCall'.op = "SetIconScale" =>
            /\ ~ScaleInRange(stCall'.scale) => style' = style
            /\ ScaleInRange(stCall'.scale) => style'.iconScale = stCall'.scale
            /\ style' = [style EXCEPT !.iconScale = style'.iconScale]]_vars

C6_Witness ==
    /\ style # Nil
    /\ stCall = [op |-> "SetIconScale", scale |-> F(1001)]
    /\ style.iconScale = F(1000)

HexChars == "0123456789abcdef"
IsHexChar(c) == \E i \in 1..16 : SubSeq(HexChars, i, i) = c
HexVal(c) == (CHOOSE i \in 1..16 : SubSeq(HexChars, i, i) = c) - 1
HexPair(s, i) == 16 * HexVal(SubSeq(s, i, i)) + HexVal(SubSeq(s, i + 1, i + 1))

\* C8: render emits one color text of exactly eight lowercase hex digits, two
\* per channel in the order alpha, blue, green, red, and the same text appears
\* in the icon, line and polygon substyles.
C8_ColorText ==
    stOut.ok =>
        \E c \in {SubSeq(stOut.text, i + 7, i + 14) :
                    i \in Occurrences(stOut.text, "<color>")} :
            /\ Len(c) = 8
            /\ \A i \in 1..8 : IsHexChar(SubSeq(c, i, i))
            /\ HexPair(c, 1) = style.alpha
            /\ HexPair(c, 3) = style.blue
            /\ HexPair(c, 5) = style.green
            /\ HexPair(c, 7) = style.red
            /\ Contains(stOut.text, "<IconStyle>\n<color>" \o c \o "</color>\n")
            /\ Contains(stOut.text, "<LineStyle>\n<color>" \o c \o "</color>\n")
            /\ Contains(stOut.text, "<PolyStyle>\n<color>" \o c \o "</color>\n")
            /\ Cardinality(Occurrences(stOut.text, "<color>")) = 3
            /\ Occurrences(stOut.text, "<color>" \o c \o "</color>\n")
                  = Occurrences(stOut.text, "<color>")
            /\ (style.alpha = 255 /\ style.red = 1 /\ style.green = 2
                  /\ style.blue = 3) => c = "ff030201"

C8_Witness ==
    /\ stOut.ok
    /\ style.alpha = 255 /\ style.red = 1 /\ style.green = 2 /\ style.blue = 3
    /\ Contains(stOut.text, "<PolyStyle>\n<color>ff030201</color>\n")

-----------------------------------------------------------------------------
(* Properties of Placemark *)

\* C7: render contains the style-URL line exactly when some earlier SetStyle
\* call had an argument that is not blank after trimming, and the line then
\* references '#' and the trimmed argument of the most recent such call; a
\* SetStyle call with a blank argument leaves the placemark unchanged, and no
\* SetStyle call changes another field.  (Stated of the renders that return.)
C7_StyleUrl ==
    /\ [](\A p \in 1..Len(placemarks) : placemarks[p].style = lastStyle[p])
    /\ [](docOut.ok =>
            LET want == lastStyle[docOut.p]
            IN  IF want = "" THEN ~Contains(docOut.text, "<styleUrl>")
                ELSE /\ Contains(docOut.text,
                            "<styleUrl>#" \o want \o "</styleUrl>\n")
                     /\ Cardinality(Occurrences(docOut.text, "<styleUrl>")) = 1)
    /\ [][\A p \in 1..Len(placemarks) :
            placemarks'[p] = [placemarks[p] EXCEPT !.style = placemarks'[p].style]]_vars

C7_Witness ==
    /\ docOut.ok
    /\ lastStyle[docOut.p] = "a b"
    /\ Contains(docOut.text, "<visibility>1</visibility>\n<styleUrl>#a b</styleUrl>\n<Point>\n")

-----------------------------------------------------------------------------
(* Properties of the document *)

IsNilChild(x) ==
    \/ x = Nil
    \/ x.t \in {"Folder", "Placemark"} /\ x.p = 0
    \/ x.t \in {"Point", "Style"} /\ x.p = Nil

\* C3 as stated: add calls with a nil argument leave the parent's child
\* sequence unchanged, so each child sequence consists of the non-nil
\* arguments in call order, and no stored folder or feature is nil.
C3_AsStated ==
    /\ kml.folders = added.kml
    /\ \A f \in 1..Len(folders) :
          /\ folders[f].features = added.features[f]
          /\ \A i \in 1..Len(folders[f].features) :
                ~IsNilChild(folders[f].features[i])
    /\ \A i \in 1..Len(kml.folders) : kml.folders[i] # 0

RECURSIVE ExpectedFolder(_, _)
RECURSIVE ExpectedEach(_, _)
\* the fragment of folder f: opening tag, name, description, the fragment of
\* each child in the order of the AddFeature calls, closing tag
ExpectedFolder(f, depth) ==
    "<Folder>\n<name>" \o folders[f].name \o "</name>\n<description>"
        \o folders[f].description \o "</description>\n"
        \o (IF depth = 0 THEN "" ELSE ExpectedEach(added.features[f], depth - 1))
        \o "</Folder>\n"
ExpectedEach(xs, depth) ==
    IF xs = <<>> THEN ""
    ELSE (IF Head(xs).t = "Folder" THEN ExpectedFolder(Head(xs).p, depth)
          ELSE Renderable_render(Heap, Head(xs), depth).text)
         \o ExpectedEach(Tail(xs), depth)

NestedDoc ==
    /\ Len(folders) >= 2 /\ Len(placemarks) >= 1
    /\ placemarks[1].style = ""
    /\ kml.folders = <<1>>
    /\ folders[1].features = <<[t |-> "Folder", p |-> 2]>>
    /\ folders[2].features = <<[t |-> "Placemark", p |-> 1]>>

\* C4: Render returns the declaration and root opening, then the fragment of
\* each added folder in the order of the AddFolder calls, then the root
\* closing tag, each folder fragment wrapping its children's fragments in the
\* order of the AddFeature calls; a folder in a folder in the document, holding
\* a placemark, gives three properly nested and closed levels.  (Stated of the
\* Render calls that return.)
C4_RenderStructure ==
    docOut.ok =>
        /\ docOut.text =
              "<?xml version=\"1.0\" encoding=\"UTF-8\"?>\n"
              \o "<kml xmlns=\"http://www.opengis.net/kml/2.2\">\n"
              \o ExpectedEach([i \in 1..Len(added.kml) |->
                                 [t |-> "Folder", p |-> added.kml[i]]], MaxStack)
              \o "</kml>\n"
        /\ NestedDoc =>
              docOut.text =
                 "<?xml version=\"1.0\" encoding=\"UTF-8\"?>\n"
                 \o "<kml xmlns=\"http://www.opengis.net/kml/2.2\">\n"
                 \o "<Folder>\n<name>A</name>\n<description>d</description>\n"
                 \o "<Folder>\n<name>B</name>\n<description>d</description>\n"
                 \o "<Placemark>\n<name>P</name>\n<description>q</description>\n"
                 \o "<visibility>1</visibility>\n"
                 \o "<Point>\n<extrude>0</extrude>\n"
                 \o "<altitudeMode>clampToGround</altitudeMode>\n"
                 \o "<coordinates>20.000000,10.000000,0.000000</coordinates>\n"
                 \o "</Point>\n"
                 \o "</Placemark>\n"
                 \o "</Folder>\n"
                 \o "</Folder>\n"
                 \o "</kml>\n"

C4_Witness == docOut.ok /\ NestedDoc

\* C9: a render call leaves every node's fields and child sequences unchanged,
\* and a render call that follows a render call returns the same text.
C9_RenderPure ==
    [][docOut' # NoOut =>
          /\ <<kml, folders, placemarks>>' = <<kml, folders, placemarks>>
          /\ docOut # NoOut => docOut' = docOut]_vars

C9_Witness ==
    /\ docOut.ok
    /\ Len(kml.folders) = 2
    /\ \E f \in 1..Len(folders) : Len(folders[f].features) > 0

NoNilChild ==
    \A f \in 1..Len(folders) :
        \A i \in 1..Len(folders[f].features) : ~IsNilChild(folders[f].features[i])

\* C10 as stated: Render returns a result on every document that NewKML,
\* NewFolder, NewPlacemark, AddFolder and AddFeature calls can build, for any
\* nesting of folders in folders.  (Stated of the documents that store no nil
\* child, so that the violation is not the one of C3.)
C10_AsStated == (docOut # NoOut /\ NoNilChild) => docOut.ok

=============================================================================
